---- MODULE Spec2Model ----
(***************************************************************************)
(* chatsapp: a multi-room line-protocol chat server.                       *)
(*                                                                         *)
(* One task per connection (App::run, src/src/app.rs) reads commands and   *)
(* drives the session state (State::Outside / State::Inside), the store    *)
(* calls of src/src/room.rs (a Redis sorted set per room) and the sends on *)
(* the room brokers' channels.  The broker task and the registry insert    *)
(* (crate::broker) and room::recent_msgs are not among the sources; they   *)
(* are modelled from sections 4.2, 4.3 and 6 of the specification.         *)
(*                                                                         *)
(* Every await on the store or on a channel is one step of the session, so *)
(* that sessions and brokers interleave exactly where the tasks can.       *)
(***************************************************************************)
EXTENDS Integers, Sequences, FiniteSets, TLC

\* ---------------------------------------------------------------- bounds
MaxCmds   == 5      \* lines the sessions read in one run of SpecChat
MaxLines  == 4      \* lines the sessions read in one run of Spec
MaxClose  == 1      \* connections whose peer goes away in one run
MaxFaults == 1      \* store round trips that fail in one run
MaxChan   == 2      \* events a broker channel buffers before send suspends
MaxTime   == 1      \* last millisecond the clock reaches
MaxWrites == 4      \* write_all calls in one run of SpecWrite
MaxChunks == 2      \* pieces in which the bytes of one write reach the stream

\* ---------------------------------------------------------------- inputs
Sessions == {"s1", "s2"}
Rooms    == {"r1", "r2"}
Names    == {"ann", "bob"}
Msgs     == {"hi"}

None     == "None"
NoHandle == "NoHandle"
NoRoom   == "NoRoom"
NoWriter == "NoWriter"

\* the tasks that hold a clone of a stream's handle: the session task that
\* owns the connection and the room brokers
Writers == {"session"} \cup Rooms

\* ---------------------------------------------------------------- state
VARIABLES
    username,   \* User.username of each session: None or a name
    state,      \* App.state of each session
    pc,         \* where each session task is inside App::run
    cmd,        \* the command a session is handling, with its locals
    nsent,      \* events a session has sent to brokers
    quota,      \* lines the sessions may still read in the run
    connUp,     \* whether the peer of a connection is still there
    out,        \* what has been written to each connection's stream
    room_map,   \* the registry: names that have a broker channel
    chan,       \* the broker channels (FIFO)
    members,    \* each broker's membership: username -> write handle
    cur,        \* the event each broker is handling, NoEvent between events
    todo,       \* the handles a broker has still to write the event's text to
    processed,  \* each broker's log of the events it has received
    store,      \* the sorted sets of the store, by key
    now,        \* the clock, in ms
    faults,     \* store round trips that have failed
    guard,      \* the Mutex of each stream: the writer holding it, or NoWriter
    wr,         \* each writer's position inside write_all, per stream
    wire        \* the chunks that have reached each stream, in order

vars == << username, state, pc, cmd, nsent, quota, connUp, out, room_map, chan,
           members, cur, todo, processed, store, now, faults, guard, wr, wire >>

\* ------------------------------------------------------- room.rs: texts
gen_key(name) == "room:" \o name

gen_chat(user, message) == user \o ": " \o message

gen_join_msg(user) == user \o " has joined the room"

gen_leave_msg(user) == user \o " has left the room"

FailedToConnect         == "Error: Failed to connect\n"
FailedToSend            == "Error: Failed to send\n"
FailedToFetch           == "Error: Failed to fetch\n"
FailedToCheckRoomExists == "Error: Failed to check if room exists\n"
RoomNameTaken           == "Error: Room name taken\n"

Keys == { gen_key(r) : r \in Rooms }

StartOfChat == "Start of chat"

\* ZADD key member score: a sorted set holds a member once; adding a member
\* that is already there moves it to the new score.
zadd(set, member, score) ==
    { e \in set : e.member # member } \cup { [member |-> member, score |-> score] }

\* EXISTS key: a key exists while its sorted set has a member.
exists(st, key) == IF st[key] # {} THEN 1 ELSE 0

\* the text room::event stores for an event
RenderEvent(kind, user, message) ==
    CASE kind = "Chat"  -> gen_chat(user, message)
      [] kind = "Join"  -> gen_join_msg(user)
      [] kind = "Leave" -> gen_leave_msg(user)

\* room::event after its connection is up: one ZADD scored by the clock
event(st, kind, room, user, message, score) ==
    [st EXCEPT ![gen_key(room)] = zadd(@, RenderEvent(kind, user, message), score)]

\* room::list: KEYS room*
list(st) == { k \in Keys : st[k] # {} }

\* ------------------------------------------------------- app.rs: texts
NotInRoomText    == "You're not currently in a room.\n"
RoomNotFoundText == "Room not found\n"
SetUsernameText  == "You need to pick a username before joining a room\n"
InvalidText      == "Invalid command.\nEnter \">help\" for a list of commands and their usage.\n"
HelpText         == "Commands:\n>help ..."
GreetingText     == "Welcome to ChatsApp!\n..."

addr(s) == "addr:" \o s

InfoText(s) ==
    "Username: "
    \o (IF username[s] = None THEN "None" ELSE "Some(\"" \o username[s] \o "\")")
    \o ", IP: " \o addr(s) \o "\n"

RECURSIVE Concat(_, _)
\* write_list: the items appended to one string, each followed by a newline
\* when new_line is set
Concat(items, new_line) ==
    IF items = << >> THEN ""
    ELSE Head(items) \o (IF new_line THEN "\n" ELSE "") \o Concat(Tail(items), new_line)

\* the orders in which a set can be iterated
Orders(S) ==
    { q \in [1..Cardinality(S) -> S] : \A i, j \in 1..Cardinality(S) : i # j => q[i] # q[j] }

\* ------------------------------------------------------- session state
Outside == [tag |-> "Outside", room |-> NoRoom, tx |-> NoRoom]
Inside(room, tx) == [tag |-> "Inside", room |-> room, tx |-> tx]

NoCmd == [kind |-> "none", arg |-> NoRoom, fresh |-> FALSE, res |-> "none",
          sent |-> << >>, wrote |-> << >>]
NewCmd(kind, arg) == [NoCmd EXCEPT !.kind = kind, !.arg = arg]

\* one write to a stream: who wrote it, the bytes, and what the bytes are:
\* the text of a broker event, or the reply to a line the session has read
NoEvent == << >>
Written(by, text, ev, line) == [by |-> by, text |-> text, ev |-> ev, line |-> line]

\* write_all from the session task: the lock is taken, the bytes are written
\* and the lock is released in one step; a write to a closed connection
\* fails, the ? operators carry the error out of App::run and the task ends.
write_all(s, line, text, next) ==
    IF connUp[s]
    THEN /\ out' = [out EXCEPT ![s] = Append(@, Written("session", text, NoEvent, line))]
         /\ pc' = [pc EXCEPT ![s] = next]
    ELSE /\ out' = out
         /\ pc' = [pc EXCEPT ![s] = "done"]

\* a session that is back at lines.next_line() forgets the command's locals
Finish(c, next) == IF next = "idle" THEN NoCmd ELSE c

\* lines.next_line() returns a line
Read(s) ==
    /\ pc[s] = "idle"
    /\ connUp[s]
    /\ quota > 0
    /\ quota' = quota - 1

\* App::new for every connection, an empty registry and an empty store
Start(lines) ==
    /\ username = [s \in Sessions |-> None]
    /\ state = [s \in Sessions |-> Outside]
    /\ pc = [s \in Sessions |-> "greeting"]
    /\ cmd = [s \in Sessions |-> NoCmd]
    /\ nsent = [s \in Sessions |-> 0]
    /\ quota = lines
    /\ connUp = [s \in Sessions |-> TRUE]
    /\ out = [s \in Sessions |-> << >>]
    /\ room_map = {}
    /\ chan = [r \in Rooms |-> << >>]
    /\ members = [r \in Rooms |-> [n \in Names |-> NoHandle]]
    /\ cur = [r \in Rooms |-> NoEvent]
    /\ todo = [r \in Rooms |-> {}]
    /\ processed = [r \in Rooms |-> << >>]
    /\ store = [k \in Keys |-> {}]
    /\ now = 0
    /\ faults = 0
    /\ guard = [h \in Sessions |-> NoWriter]
    /\ wr = [h \in Sessions |-> [w \in Writers |-> [pc |-> "out", left |-> 0, n |-> 0]]]
    /\ wire = [h \in Sessions |-> << >>]

Init == Start(MaxLines)

\* ------------------------------------------------------- store outcomes
StoreOk == faults' = faults

StoreFails == faults < MaxFaults /\ faults' = faults + 1

\* get_time_in_ms: the clock read by one round trip is the last reading or
\* a later one
Clock(t) == t \in now..(now + 1) /\ t <= MaxTime /\ now' = t

\* ------------------------------------------------------- broker events
JoinRoomEvent(s, room) ==
    [kind |-> "JoinRoom", user |-> username[s], stream |-> s,
     msg |-> gen_join_msg(username[s]), room |-> room, from |-> s, seq |-> nsent[s]]

LeaveRoomEvent(s, room) ==
    [kind |-> "LeaveRoom", user |-> username[s], stream |-> NoHandle,
     msg |-> gen_leave_msg(username[s]), room |-> room, from |-> s, seq |-> nsent[s]]

MessageEvent(s, room, text) ==
    [kind |-> "Message", user |-> username[s], stream |-> NoHandle,
     msg |-> gen_chat(username[s], text), room |-> room, from |-> s, seq |-> nsent[s]]

\* a send that puts the event at the front of the channel
send_front(tx, ev) == << ev >> \o chan[tx]

\* tx.send(event).await: the event goes to the back of the channel; the
\* send suspends while the channel is full
send(tx, ev) == Append(chan[tx], ev)

CanSend(tx) == Len(chan[tx]) < MaxChan

Sent(c, ev) == [c EXCEPT !.sent = Append(@, ev)]

Wrote(c, key) == [c EXCEPT !.wrote = Append(@, key)]

\* ------------------------------------------------------- App::run
Greeting(s) ==
    /\ pc[s] = "greeting"
    /\ write_all(s, "accept", GreetingText, "idle")
    /\ UNCHANGED << guard, wr, wire, username, state, cmd, nsent, quota, connUp, room_map, chan, members,
                    cur, todo, processed, store, now, faults >>

Help(s) ==
    /\ Read(s)
    /\ write_all(s, "help", HelpText, "idle")
    /\ UNCHANGED << guard, wr, wire, username, nsent, state, cmd, connUp, room_map, chan, members,
                    cur, todo, processed, store, now, faults >>

List(s) ==
    /\ Read(s)
    /\ \/ /\ StoreOk
          /\ \E q \in Orders(list(store)) : write_all(s, "list", Concat(q, TRUE), "idle")
       \/ /\ StoreFails
          /\ \E e \in {FailedToConnect, FailedToFetch} : write_all(s, "list", e, "idle")
    /\ UNCHANGED << guard, wr, wire, username, nsent, state, cmd, connUp, room_map, chan, members,
                    cur, todo, processed, store, now >>

Me(s) ==
    /\ Read(s)
    /\ write_all(s, "me", InfoText(s), "idle")
    /\ UNCHANGED << guard, wr, wire, username, nsent, state, cmd, connUp, room_map, chan, members,
                    cur, todo, processed, store, now, faults >>

SetUsername(s, name) ==
    /\ Read(s)
    /\ username' = [username EXCEPT ![s] = name]
    /\ UNCHANGED << guard, wr, wire, state, pc, cmd, nsent, connUp, out, room_map, chan, members,
                    cur, todo, processed, store, now, faults >>

Invalid(s) ==
    /\ Read(s)
    /\ write_all(s, "invalid", InvalidText, "idle")
    /\ UNCHANGED << guard, wr, wire, username, nsent, state, cmd, connUp, room_map, chan, members,
                    cur, todo, processed, store, now, faults >>

Exit(s) ==
    /\ Read(s)
    /\ pc' = [pc EXCEPT ![s] = "done"]
    /\ UNCHANGED << guard, wr, wire, username, state, cmd, nsent, connUp, out, room_map, chan, members,
                    cur, todo, processed, store, now, faults >>

\* the peer goes away: every later write to the stream fails
PeerClose(s) ==
    /\ connUp[s] /\ pc[s] # "done"
    /\ Cardinality({ t \in Sessions : ~connUp[t] }) < MaxClose
    /\ connUp' = [connUp EXCEPT ![s] = FALSE]
    /\ UNCHANGED << guard, wr, wire, username, state, pc, cmd, nsent, quota, out, room_map, chan, members,
                    cur, todo, processed, store, now, faults >>

\* lines.next_line() on a closed connection ends the loop
EndOfStream(s) ==
    /\ pc[s] = "idle" /\ ~connUp[s]
    /\ pc' = [pc EXCEPT ![s] = "done"]
    /\ UNCHANGED << guard, wr, wire, username, state, cmd, nsent, quota, connUp, out, room_map, chan, members,
                    cur, todo, processed, store, now, faults >>

\* ------------------------------------------------------- Command::CreateRoom
\* room::new up to its EXISTS; an error of room::new is written to the
\* caller and the loop goes on to broker::spawn_broker either way
CreateRoom(s, room) ==
    /\ Read(s)
    /\ LET c == [NewCmd("create", room) EXCEPT !.fresh = (store[gen_key(room)] = {})] IN
       \/ /\ StoreFails
          /\ \E e \in {FailedToConnect, FailedToCheckRoomExists} :
                /\ cmd' = [cmd EXCEPT ![s] = [c EXCEPT !.res = e]]
                /\ write_all(s, "create", e, "spawn")
       \/ /\ StoreOk
          /\ exists(store, gen_key(room)) = 1
          /\ cmd' = [cmd EXCEPT ![s] = [c EXCEPT !.res = RoomNameTaken]]
          /\ write_all(s, "create", RoomNameTaken, "spawn")
       \/ /\ StoreOk
          /\ exists(store, gen_key(room)) # 1
          /\ cmd' = [cmd EXCEPT ![s] = c]
          /\ pc' = [pc EXCEPT ![s] = "new_zadd"]
          /\ out' = out
    /\ UNCHANGED << guard, wr, wire, username, nsent, state, connUp, room_map, chan, members,
                    cur, todo, processed, store, now >>

\* room::new: ZADD key "Start of chat" 0
NewZadd(s) ==
    /\ pc[s] = "new_zadd"
    /\ \/ /\ StoreOk
          /\ store' = [store EXCEPT ![gen_key(cmd[s].arg)] = zadd(@, StartOfChat, 0)]
          /\ cmd' = [cmd EXCEPT ![s] = Wrote([@ EXCEPT !.res = "Ok"], gen_key(cmd[s].arg))]
          /\ pc' = [pc EXCEPT ![s] = "spawn"]
          /\ out' = out
       \/ /\ StoreFails
          /\ store' = store
          /\ cmd' = [cmd EXCEPT ![s] = [@ EXCEPT !.res = FailedToSend]]
          /\ write_all(s, "create", FailedToSend, "spawn")
    /\ UNCHANGED << guard, wr, wire, username, state, nsent, quota, connUp, room_map, chan, members,
                    cur, todo, processed, now >>

\* join_room keeps the registry's read lock from its first line to its return
HoldsReadLock(s) == pc[s] \in {"join_send", "join_recent"}

\* broker::spawn_broker: takes the registry's write lock and publishes the
\* room's channel; a name that is already registered keeps its broker
spawn_broker(s) ==
    /\ pc[s] = "spawn"
    /\ \A t \in Sessions : ~HoldsReadLock(t)
    /\ room_map' = room_map \cup {cmd[s].arg}
    /\ cmd' = [cmd EXCEPT ![s] = NoCmd]
    /\ pc' = [pc EXCEPT ![s] = "idle"]
    /\ UNCHANGED << guard, wr, wire, username, state, nsent, quota, connUp, out, chan, members,
                    cur, todo, processed, store, now, faults >>

\* ------------------------------------------------------- leave_room
\* where a session goes when leave_room has returned Ok(()): handle_leave
\* sets State::Outside, handle_join goes on to join_room
AfterLeave(c) == IF c.kind = "leave" THEN "idle" ELSE "join_room"

StateAfterLeave(s, c) == IF c.kind = "leave" THEN Outside ELSE state[s]

\* leave_room: room::event(RoomEvent::Leave) for command c; on an error the
\* error is written to the caller and leave_room returns Ok(()) without
\* sending anything to the broker
leave_room(s, c) ==
    \/ /\ StoreOk
       /\ \E t \in 0..MaxTime :
             /\ Clock(t)
             /\ store' = event(store, "Leave", state[s].room, username[s], "", t)
       /\ cmd' = [cmd EXCEPT ![s] = Wrote(c, gen_key(state[s].room))]
       /\ pc' = [pc EXCEPT ![s] = "leave_send"]
       /\ UNCHANGED << out, state >>
    \/ /\ StoreFails
       /\ UNCHANGED << store, now >>
       /\ \E e \in {FailedToConnect, FailedToSend} :
             /\ write_all(s, c.kind, e, AfterLeave(c))
             /\ cmd' = [cmd EXCEPT ![s] = Finish([c EXCEPT !.res = e], AfterLeave(c))]
       /\ state' = [state EXCEPT ![s] = IF connUp[s] THEN StateAfterLeave(s, c) ELSE @]

\* leave_room: tx.send(BrokerEvent::LeaveRoom)
LeaveRoomSend(s) ==
    /\ pc[s] = "leave_send"
    /\ CanSend(state[s].tx)
    /\ LET ev == LeaveRoomEvent(s, state[s].tx) IN
          /\ chan' = [chan EXCEPT ![state[s].tx] = send(state[s].tx, ev)]
          /\ cmd' = [cmd EXCEPT ![s] = Finish(Sent(@, ev), AfterLeave(cmd[s]))]
    /\ nsent' = [nsent EXCEPT ![s] = @ + 1]
    /\ pc' = [pc EXCEPT ![s] = AfterLeave(cmd[s])]
    /\ state' = [state EXCEPT ![s] = StateAfterLeave(s, cmd[s])]
    /\ UNCHANGED << guard, wr, wire, username, quota, connUp, out, room_map, members,
                    cur, todo, processed, store, now, faults >>

\* ------------------------------------------------------- join_room
\* join_room up to room::event(RoomEvent::Join) for command c: the registry
\* lookup, then the store call; None is returned, and the state is left as
\* it is, when the room has no channel or the store call fails
join_room(s, c) ==
    \/ /\ c.arg \notin room_map
       /\ StoreOk
       /\ UNCHANGED << store, now >>
       /\ write_all(s, c.kind, RoomNotFoundText, "idle")
       /\ cmd' = [cmd EXCEPT ![s] = NoCmd]
    \/ /\ c.arg \in room_map
       /\ StoreFails
       /\ UNCHANGED << store, now >>
       /\ \E e \in {FailedToConnect, FailedToSend} : write_all(s, c.kind, e, "idle")
       /\ cmd' = [cmd EXCEPT ![s] = NoCmd]
    \/ /\ c.arg \in room_map
       /\ StoreOk
       /\ \E t \in 0..MaxTime :
             /\ Clock(t)
             /\ store' = event(store, "Join", c.arg, username[s], "", t)
       /\ cmd' = [cmd EXCEPT ![s] = Wrote(c, gen_key(c.arg))]
       /\ pc' = [pc EXCEPT ![s] = "join_send"]
       /\ out' = out

\* ------------------------------------------------------- Command::JoinRoom
\* a join-room that does not look at the username
JoinRoomUnchecked(s, room) ==
    /\ Read(s)
    /\ IF state[s].tag = "Inside"
       THEN leave_room(s, NewCmd("join", room))
       ELSE /\ join_room(s, NewCmd("join", room))
            /\ state' = state
    /\ UNCHANGED << guard, wr, wire, username, nsent, connUp, room_map, chan, members,
                    cur, todo, processed >>

\* the username check of App::run and handle_join up to its first store
\* call: leave_room when the session is Inside, join_room when it is Outside
JoinRoom(s, room) ==
    /\ Read(s)
    /\ IF username[s] = None
       THEN /\ write_all(s, "join", SetUsernameText, "idle")
            /\ UNCHANGED << cmd, state, store, now, faults >>
       ELSE IF state[s].tag = "Inside"
            THEN leave_room(s, NewCmd("join", room))
            ELSE /\ join_room(s, NewCmd("join", room))
                 /\ state' = state
    /\ UNCHANGED << guard, wr, wire, username, nsent, connUp, room_map, chan, members,
                    cur, todo, processed >>

\* handle_join after leave_room has returned: join_room
JoinRoomStore(s) ==
    /\ pc[s] = "join_room"
    /\ join_room(s, cmd[s])
    /\ UNCHANGED << guard, wr, wire, username, state, nsent, quota, connUp, room_map, chan, members,
                    cur, todo, processed >>

\* ------------------------------------------------------- Command::Leave
\* handle_leave up to the store call of leave_room
Leave(s) ==
    /\ Read(s)
    /\ IF state[s].tag = "Outside"
       THEN /\ write_all(s, "leave", NotInRoomText, "idle")
            /\ UNCHANGED << cmd, state, store, now, faults >>
       ELSE leave_room(s, NewCmd("leave", state[s].room))
    /\ UNCHANGED << guard, wr, wire, username, nsent, connUp, room_map, chan, members,
                    cur, todo, processed >>

\* join_room: tx.send(BrokerEvent::JoinRoom) with the session's stream
JoinRoomSend(s) ==
    /\ pc[s] = "join_send"
    /\ CanSend(cmd[s].arg)
    /\ LET ev == JoinRoomEvent(s, cmd[s].arg) IN
          /\ chan' = [chan EXCEPT ![cmd[s].arg] = send(cmd[s].arg, ev)]
          /\ cmd' = [cmd EXCEPT ![s] = Sent(@, ev)]
    /\ nsent' = [nsent EXCEPT ![s] = @ + 1]
    /\ pc' = [pc EXCEPT ![s] = "join_recent"]
    /\ UNCHANGED << guard, wr, wire, username, state, quota, connUp, out, room_map, members,
                    cur, todo, processed, store, now, faults >>

\* room::recent_msgs: the members of the room's sorted set by score; members
\* of one score come in either order
recent_msgs(st, room) ==
    { [i \in 1..Len(q) |-> q[i].member] :
        q \in { o \in Orders(st[gen_key(room)]) :
                  \A i, j \in 1..Len(o) : i < j => o[i].score <= o[j].score } }

\* join_room from room::recent_msgs on: the backlog (or the error) is
\* written, Some(tx) is returned and handle_join sets State::Inside
JoinRoomRecent(s) ==
    /\ pc[s] = "join_recent"
    /\ \/ /\ StoreOk
          /\ \E q \in recent_msgs(store, cmd[s].arg) : write_all(s, "join", Concat(q, FALSE), "idle")
       \/ /\ StoreFails
          /\ \E e \in {FailedToConnect, FailedToFetch} : write_all(s, "join", e, "idle")
    /\ state' = [state EXCEPT ![s] =
                    IF connUp[s] THEN Inside(cmd[s].arg, cmd[s].arg) ELSE @]
    /\ cmd' = [cmd EXCEPT ![s] = IF connUp[s] THEN NoCmd ELSE @]
    /\ UNCHANGED << guard, wr, wire, username, nsent, quota, connUp, room_map, chan, members,
                    cur, todo, processed, store, now >>

\* ------------------------------------------------------- Command::Message
\* a handle_message that answers nothing when the session is Outside
MessageSilent(s, text) ==
    /\ Read(s)
    /\ state[s].tag = "Outside"
    /\ UNCHANGED << guard, wr, wire, username, state, pc, cmd, nsent, connUp, out, room_map, chan,
                    members, cur, todo, processed, store, now, faults >>

\* handle_message, and send_message up to room::event(RoomEvent::Chat)
Message(s, text) ==
    /\ Read(s)
    /\ \/ /\ state[s].tag = "Outside"
          /\ StoreOk
          /\ write_all(s, "message", NotInRoomText, "idle")
          /\ UNCHANGED << cmd, store, now >>
       \/ /\ state[s].tag = "Inside"
          /\ StoreFails
          /\ \E e \in {FailedToConnect, FailedToSend} : write_all(s, "message", e, "idle")
          /\ UNCHANGED << cmd, store, now >>
       \/ /\ state[s].tag = "Inside"
          /\ StoreOk
          /\ \E t \in 0..MaxTime :
                /\ Clock(t)
                /\ store' = event(store, "Chat", state[s].room, username[s], text, t)
          /\ cmd' = [cmd EXCEPT ![s] = Wrote(NewCmd("message", text), gen_key(state[s].room))]
          /\ pc' = [pc EXCEPT ![s] = "msg_send"]
          /\ out' = out
    /\ UNCHANGED << guard, wr, wire, username, nsent, state, connUp, room_map, chan, members,
                    cur, todo, processed >>

\* send_message: tx.send(BrokerEvent::Message)
SendMessage(s) ==
    /\ pc[s] = "msg_send"
    /\ CanSend(state[s].tx)
    /\ chan' = [chan EXCEPT ![state[s].tx] =
                  send(state[s].tx, MessageEvent(s, state[s].tx, cmd[s].arg))]
    /\ cmd' = [cmd EXCEPT ![s] = NoCmd]
    /\ nsent' = [nsent EXCEPT ![s] = @ + 1]
    /\ pc' = [pc EXCEPT ![s] = "idle"]
    /\ UNCHANGED << guard, wr, wire, username, state, quota, connUp, out, room_map, members,
                    cur, todo, processed, store, now, faults >>

\* ------------------------------------------------------- the room broker
\* the handles of a membership
Handles(m) == { m[n] : n \in Names } \ {NoHandle}

\* the membership once the event has been handled: LeaveRoom removes the
\* user's entry after the event's text has been written
Settled(m, ev) ==
    IF ev.kind = "LeaveRoom" THEN [m EXCEPT ![ev.user] = NoHandle] ELSE m

\* rx.recv(): the broker takes the event at the front of its channel;
\* JoinRoom puts the stream into the membership before the text is written
BrokerRecv(r) ==
    /\ r \in room_map
    /\ cur[r] = NoEvent
    /\ chan[r] # << >>
    /\ LET ev == Head(chan[r])
           m  == IF ev.kind = "JoinRoom"
                 THEN [members[r] EXCEPT ![ev.user] = ev.stream]
                 ELSE members[r]
       IN /\ chan' = [chan EXCEPT ![r] = Tail(@)]
          /\ processed' = [processed EXCEPT ![r] = Append(@, [ev |-> ev, to |-> Handles(m)])]
          /\ IF Handles(m) = {}
             THEN /\ members' = [members EXCEPT ![r] = Settled(m, ev)]
                  /\ UNCHANGED << cur, todo >>
             ELSE /\ members' = [members EXCEPT ![r] = m]
                  /\ cur' = [cur EXCEPT ![r] = ev]
                  /\ todo' = [todo EXCEPT ![r] = Handles(m)]
    /\ UNCHANGED << guard, wr, wire, username, state, pc, cmd, nsent, quota, connUp, out, room_map,
                    store, now, faults >>

\* the broker writes the event's text to one member; a write to a closed
\* connection fails and the broker goes on
BrokerWrite(r, h) ==
    /\ cur[r] # NoEvent
    /\ h \in todo[r]
    /\ out' = [out EXCEPT ![h] = IF connUp[h] THEN Append(@, Written(r, cur[r].msg, cur[r], "broadcast")) ELSE @]
    /\ todo' = [todo EXCEPT ![r] = @ \ {h}]
    /\ IF todo[r] = {h}
       THEN /\ members' = [members EXCEPT ![r] = Settled(@, cur[r])]
            /\ cur' = [cur EXCEPT ![r] = NoEvent]
       ELSE UNCHANGED << members, cur >>
    /\ UNCHANGED << guard, wr, wire, username, state, pc, cmd, nsent, quota, connUp, room_map, chan,
                    processed, store, now, faults >>

\* ------------------------------------------------------- specification
Next ==
    \/ \E s \in Sessions : Greeting(s)
    \/ \E s \in Sessions : Help(s)
    \/ \E s \in Sessions : List(s)
    \/ \E s \in Sessions : Me(s)
    \/ \E s \in Sessions, n \in Names : SetUsername(s, n)
    \/ \E s \in Sessions : Invalid(s)
    \/ \E s \in Sessions : Exit(s)
    \/ \E s \in Sessions : PeerClose(s)
    \/ \E s \in Sessions : EndOfStream(s)
    \/ \E s \in Sessions, r \in Rooms : CreateRoom(s, r)
    \/ \E s \in Sessions : NewZadd(s)
    \/ \E s \in Sessions : spawn_broker(s)
    \/ \E s \in Sessions, r \in Rooms : JoinRoom(s, r)
    \/ \E s \in Sessions : Leave(s)
    \/ \E s \in Sessions : LeaveRoomSend(s)
    \/ \E s \in Sessions : JoinRoomStore(s)
    \/ \E s \in Sessions : JoinRoomSend(s)
    \/ \E s \in Sessions : JoinRoomRecent(s)
    \/ \E s \in Sessions, m \in Msgs : Message(s, m)
    \/ \E s \in Sessions : SendMessage(s)
    \/ \E r \in Rooms : BrokerRecv(r)
    \/ \E r \in Rooms, h \in Sessions : BrokerWrite(r, h)

Spec == Init /\ [][Next]_vars

\* The chat commands alone (set-username, create-room, join-room, message,
\* leave, exit) on connections that stay up, with more lines to read.
InitChat == Start(MaxCmds)

NextChat ==
    \/ \E s \in Sessions : Greeting(s)
    \/ \E s \in Sessions, n \in Names : SetUsername(s, n)
    \/ \E s \in Sessions : Exit(s)
    \/ \E s \in Sessions, r \in Rooms : CreateRoom(s, r)
    \/ \E s \in Sessions : NewZadd(s)
    \/ \E s \in Sessions : spawn_broker(s)
    \/ \E s \in Sessions, r \in Rooms : JoinRoom(s, r)
    \/ \E s \in Sessions : Leave(s)
    \/ \E s \in Sessions : LeaveRoomSend(s)
    \/ \E s \in Sessions : JoinRoomStore(s)
    \/ \E s \in Sessions : JoinRoomSend(s)
    \/ \E s \in Sessions : JoinRoomRecent(s)
    \/ \E s \in Sessions, m \in Msgs : Message(s, m)
    \/ \E s \in Sessions : SendMessage(s)
    \/ \E r \in Rooms : BrokerRecv(r)
    \/ \E r \in Rooms, h \in Sessions : BrokerWrite(r, h)

SpecChat == InitChat /\ [][NextChat]_vars

\* ------------------------------------------------------- write_all, step by step
\* The writes of one stream at the grain of write_all's awaits: the session
\* task and the brokers that hold the handle call write_all on it, each call
\* takes the Mutex, writes its bytes piece by piece and drops the guard.

RECURSIVE Sum(_, _)
Sum(f, S) == IF S = {} THEN 0 ELSE LET x == CHOOSE y \in S : TRUE IN f[x] + Sum(f, S \ {x})

\* the write_all calls made so far, on all streams
Calls ==
    Sum([x \in Sessions \X Writers |->
            wr[x[1]][x[2]].n + (IF wr[x[1]][x[2]].pc = "out" THEN 0 ELSE 1)],
        Sessions \X Writers)

\* a writer calls write_all(stream, bytes)
WriteCall(h, w) ==
    /\ wr[h][w].pc = "out"
    /\ Calls < MaxWrites
    /\ wr' = [wr EXCEPT ![h][w] = [@ EXCEPT !.pc = "lock", !.left = MaxChunks]]
    /\ UNCHANGED << guard, wire, username, state, pc, cmd, nsent, quota, connUp, out,
                    room_map, chan, members, cur, todo, processed, store, now, faults >>

\* a lock that is taken without waiting for its holder
lock_unguarded(h, w) == guard' = [guard EXCEPT ![h] = w]

\* stream.lock().await: suspends while another writer holds the guard
lock(h, w) == guard[h] = NoWriter /\ guard' = [guard EXCEPT ![h] = w]

WriteLock(h, w) ==
    /\ wr[h][w].pc = "lock"
    /\ lock(h, w)
    /\ wr' = [wr EXCEPT ![h][w] = [@ EXCEPT !.pc = "write"]]
    /\ UNCHANGED << wire, username, state, pc, cmd, nsent, quota, connUp, out,
                    room_map, chan, members, cur, todo, processed, store, now, faults >>

\* the guard is dropped when write_all returns
unlock(h, w) == guard' = [guard EXCEPT ![h] = IF @ = w THEN NoWriter ELSE @]

\* stream.write_all(bytes).await: a piece of the bytes reaches the stream
WriteBytes(h, w) ==
    /\ wr[h][w].pc = "write"
    /\ wr[h][w].left > 0
    /\ connUp[h]
    /\ wire' = [wire EXCEPT ![h] = Append(@, [by |-> w, n |-> wr[h][w].n, left |-> wr[h][w].left])]
    /\ wr' = [wr EXCEPT ![h][w] = [@ EXCEPT !.left = @ - 1]]
    /\ UNCHANGED << guard, username, state, pc, cmd, nsent, quota, connUp, out,
                    room_map, chan, members, cur, todo, processed, store, now, faults >>

\* stream.write_all(bytes).await?: the write fails on a closed connection
\* and write_all returns the error
WriteError(h, w) ==
    /\ wr[h][w].pc = "write"
    /\ wr[h][w].left > 0
    /\ ~connUp[h]
    /\ unlock(h, w)
    /\ wr' = [wr EXCEPT ![h][w] = [pc |-> "out", left |-> 0, n |-> @.n + 1]]
    /\ UNCHANGED << wire, username, state, pc, cmd, nsent, quota, connUp, out,
                    room_map, chan, members, cur, todo, processed, store, now, faults >>

\* all bytes are written and write_all returns Ok(())
WriteOk(h, w) ==
    /\ wr[h][w].pc = "write"
    /\ wr[h][w].left = 0
    /\ unlock(h, w)
    /\ wr' = [wr EXCEPT ![h][w] = [pc |-> "out", left |-> 0, n |-> @.n + 1]]
    /\ UNCHANGED << wire, username, state, pc, cmd, nsent, quota, connUp, out,
                    room_map, chan, members, cur, todo, processed, store, now, faults >>

InitWrite == Start(0)

NextWrite ==
    \/ \E h \in Sessions, w \in Writers : WriteCall(h, w)
    \/ \E h \in Sessions, w \in Writers : WriteLock(h, w)
    \/ \E h \in Sessions, w \in Writers : WriteBytes(h, w)
    \/ \E h \in Sessions, w \in Writers : WriteError(h, w)
    \/ \E h \in Sessions, w \in Writers : WriteOk(h, w)
    \/ \E s \in Sessions : PeerClose(s)

SpecWrite == InitWrite /\ [][NextWrite]_vars

\* =======================================================================
\* Properties
\* =======================================================================

\* the events whose text broker r has written to stream s, in stream order
Received(s, r) ==
    LET FromRoom(w) == w.by = r
        q == SelectSeq(out[s], FromRoom)
    IN  [i \in 1..Len(q) |-> q[i].ev]

\* the events broker r has taken from its channel while stream s was in its
\* membership, in the order it took them, up to the one it is still writing
Expected(s, r) ==
    LET ToStream(p) == s \in p.to
        q == SelectSeq(processed[r], ToStream)
        n == IF cur[r] # NoEvent /\ s \in todo[r] THEN Len(q) - 1 ELSE Len(q)
    IN  [i \in 1..n |-> q[i].ev]

C2_LeftBeforeJoined ==
    \A s \in Sessions :
        (pc[s] = "join_recent" /\ state[s].tag = "Inside") =>
            /\ Len(cmd[s].sent) = 2
            /\ cmd[s].sent[1].kind = "LeaveRoom"
            /\ cmd[s].sent[1].room = state[s].tx

\* C3: of two create-room commands on a name that was unused when the first
\* of them began, neither hit by a store failure, exactly one succeeds and
\* the other gets RoomNameTaken.
C3_OneCreatorWins ==
    \A s, t \in Sessions :
        ( /\ s # t
          /\ pc[s] = "spawn" /\ pc[t] = "spawn"
          /\ cmd[s].arg = cmd[t].arg
          /\ cmd[s].fresh \/ cmd[t].fresh
          /\ {cmd[s].res, cmd[t].res} \subseteq {"Ok", RoomNameTaken} )
        => cmd[s].res # cmd[t].res

\* the rooms whose broker has stream s in its membership
MemberOf(s) == { r \in Rooms : s \in Handles(members[r]) }

\* C4: a stream is in the membership of at most one broker.
C4_AtMostOneMembership ==
    \A s \in Sessions : Cardinality(MemberOf(s)) <= 1

\* the step writes text to stream s as the session's own reply
Replies(s, text) ==
    /\ Len(out'[s]) = Len(out[s]) + 1
    /\ out'[s][Len(out'[s])].by = "session"
    /\ out'[s][Len(out'[s])].text = text

\* C5: a join-room that is answered with RoomNotFound has written nothing to
\* the store, has sent nothing to a broker and leaves the session's state as
\* it was.
C5_NotFoundNoEffect ==
    [][ \A s \in Sessions :
          Replies(s, RoomNotFoundText) =>
              /\ cmd[s].wrote = << >>
              /\ cmd[s].sent = << >>
              /\ state'[s] = state[s] ]_vars

\* C6: when the join_room of a join-room issued from Inside returns None,
\* the session is Outside afterwards.
C6_FailedJoinIsOutside ==
    [][ \A s \in Sessions :
          (pc[s] = "join_room" /\ pc'[s] = "idle" /\ state[s].tag = "Inside")
              => state'[s] = Outside ]_vars

\* C7: while a joining session has not yet written the backlog, no text of
\* its JoinRoom event has been written to its stream.
C7_BacklogFirst ==
    \A s \in Sessions :
        pc[s] = "join_recent" =>
            \A i \in 1..Len(out[s]) :
                out[s][i].by = "session" \/ out[s][i].ev # cmd[s].sent[Len(cmd[s].sent)]

\* the session's room::event has just returned Ok
Appended(s) ==
    /\ pc'[s] # pc[s]
    /\ pc'[s] \in {"leave_send", "join_send", "msg_send"}

\* the room's history is in the order of its scores whichever way it is read
SortedHistory ==
    \A r \in Rooms : \A q \in recent_msgs(store, r) :
        \E o \in Orders(store[gen_key(r)]) :
            /\ q = [i \in 1..Len(o) |-> o[i].member]
            /\ \A i, j \in 1..Len(o) : i < j => o[i].score <= o[j].score

\* C8: every event room::event has stored is an entry of its own in the
\* room's history, and the history is in non-decreasing score order.
C8_EveryEventAnEntry ==
    [][ \A s \in Sessions :
          Appended(s) =>
              /\ \E k \in Keys : Cardinality(store'[k]) = Cardinality(store[k]) + 1
              /\ SortedHistory' ]_vars

\* C9: a message line read while the session is Outside is answered with
\* NotInRoom on the sender's stream alone, writes nothing to the store, sends
\* nothing to any broker and leaves the session Outside, reading on.
C9_MessageOutside ==
    [][ \A s \in Sessions, m \in Msgs :
          (Message(s, m) /\ state[s].tag = "Outside") =>
              /\ Replies(s, NotInRoomText)
              /\ \A t \in Sessions \ {s} : out'[t] = out[t]
              /\ store' = store
              /\ chan' = chan
              /\ state'[s] = Outside
              /\ pc'[s] = "idle" ]_vars

\* a session has been told NotInRoom for a message line
C9_Witness ==
    \E s \in Sessions : \E i \in 1..Len(out[s]) :
        out[s][i].line = "message" /\ out[s][i].text = NotInRoomText

\* C10: once a session is Outside and reading, and a broker has nothing left
\* to handle, the session's stream is not in that broker's membership.
C10_OutsideIsNoMember ==
    \A s \in Sessions, r \in Rooms :
        ( /\ state[s] = Outside
          /\ pc[s] = "idle"
          /\ chan[r] = << >>
          /\ cur[r] = NoEvent )
        => s \notin Handles(members[r])

\* C11: broker::spawn_broker runs only for a create-room whose room::new has
\* returned Ok(()); a create-room that failed does not reach it.
C11_SpawnOnlyAfterSuccess ==
    [][ \A s \in Sessions : spawn_broker(s) => cmd[s].res = "Ok" ]_vars

\* C12: a session task ends only at its read: by the exit command or by the
\* end of the stream; a write that fails does not end it.
C12_OnlyReadEndsSession ==
    [][ \A s \in Sessions :
          (pc[s] # "done" /\ pc'[s] = "done") => (Exit(s) \/ EndOfStream(s)) ]_vars

\* the step is one of session s
Actor(s) == pc'[s] # pc[s] \/ out'[s] # out[s]

\* C13: when a store call of a message, join-room or leave command fails, the
\* error goes to the issuing session's stream alone, the command has sent and
\* sends no event to a broker, and the session task goes on.
C13_StoreErrorIsLocal ==
    [][ /\ \A s \in Sessions :
          ( /\ faults' # faults
            /\ Actor(s)
            /\ \/ cmd[s].kind \in {"join", "leave"}
               \/ \E r \in Rooms : JoinRoom(s, r)
               \/ \E m \in Msgs : Message(s, m)
               \/ Leave(s) )
          => /\ \E e \in {FailedToConnect, FailedToSend, FailedToFetch} : Replies(s, e)
             /\ \A t \in Sessions \ {s} : out'[t] = out[t]
             /\ chan' = chan
             /\ cmd[s].sent = << >>
             /\ pc'[s] # "done"
        /\ \A s \in Sessions :
              nsent'[s] # nsent[s] => cmd[s].res = "none" ]_vars

\* the broker has nothing left to handle
Drained(r) == chan[r] = << >> /\ cur[r] = NoEvent

\* the texts of the events broker r has broadcast, in broadcast order
Broadcast(r) == [i \in 1..Len(processed[r]) |-> processed[r][i].ev.msg]

\* the store timestamps of text m in the history of room r
Scores(r, m) == { e.score : e \in { x \in store[gen_key(r)] : x.member = m } }

\* C15: two events of a room that were each stored once and broadcast once
\* are broadcast in the order of their store timestamps.
C15_HistoryOrderIsBroadcastOrder ==
    \A r \in Rooms : \A i, j \in 1..Len(Broadcast(r)) :
        ( /\ i < j
          /\ \A k \in 1..Len(Broadcast(r)) :
                (k # i => Broadcast(r)[k] # Broadcast(r)[i])
                /\ (k # j => Broadcast(r)[k] # Broadcast(r)[j]) )
        => \A a \in Scores(r, Broadcast(r)[i]), b \in Scores(r, Broadcast(r)[j]) : a <= b

\* C16: a session that is Inside a room and reading, whose broker has nothing
\* left to handle, has its stream in that broker's membership.
C16_InsideIsMember ==
    \A s \in Sessions :
        (state[s].tag = "Inside" /\ pc[s] = "idle" /\ Drained(state[s].tx))
            => s \in Handles(members[state[s].tx])

\* the place in broker r's log of the JoinRoom that admitted the session
\* whose event is at place i: its last JoinRoom before i, 0 when none
Admitted(r, i) ==
    LET js == { j \in 1..(i - 1) :
                  /\ processed[r][j].ev.kind = "JoinRoom"
                  /\ processed[r][j].ev.from = processed[r][i].ev.from }
    IN  IF js = {} THEN 0 ELSE CHOOSE j \in js : \A k \in js : k <= j

\* C17: a LeaveRoom a broker has handled carries the username of the
\* JoinRoom that admitted its session.
C17_LeftNamesTheJoined ==
    \A r \in Rooms : \A i \in 1..Len(processed[r]) :
        (processed[r][i].ev.kind = "LeaveRoom" /\ Admitted(r, i) # 0)
            => processed[r][i].ev.user = processed[r][Admitted(r, i)].ev.user

\* session s has joined room r and has not left it since, by the broker's log
JoinedNotLeft(s, r) ==
    \E i \in 1..Len(processed[r]) :
        /\ processed[r][i].ev.kind = "JoinRoom"
        /\ processed[r][i].ev.from = s
        /\ \A j \in (i + 1)..Len(processed[r]) :
              ~(processed[r][j].ev.kind = "LeaveRoom" /\ processed[r][j].ev.from = s)

\* C18: two sessions that have both joined a room and not left it are both
\* in the membership once the broker has nothing left to handle.
C18_BothJoinedBothMembers ==
    \A r \in Rooms : \A s, t \in Sessions :
        (s # t /\ Drained(r) /\ JoinedNotLeft(s, r) /\ JoinedNotLeft(t, r))
            => {s, t} \subseteq Handles(members[r])

\* C19: once a session task has ended and the brokers have nothing left to
\* handle, its stream is in no membership.
C19_EndedIsNoMember ==
    \A s \in Sessions :
        (pc[s] = "done" /\ \A r \in Rooms : Drained(r)) => MemberOf(s) = {}

\* where a session is past a username.as_ref().unwrap()
Unwrapped(s) == pc[s] \in {"leave_send", "join_room", "join_send", "join_recent", "msg_send"}

\* C20: a session that is Inside a room, or past an unwrap of its username,
\* has a username; a join-room read while no username is set is answered
\* with the request to pick one, writes nothing to the store, sends nothing
\* to a broker and leaves the session Outside, reading on.
C20_UsernameSetInside ==
    [][ /\ \A s \in Sessions :
              (state'[s].tag = "Inside" \/ Unwrapped(s)') => username'[s] # None
        /\ \A s \in Sessions, r \in Rooms :
              (JoinRoom(s, r) /\ username[s] = None) =>
                  /\ Replies(s, SetUsernameText)
                  /\ store' = store
                  /\ chan' = chan
                  /\ state'[s] = Outside
                  /\ pc'[s] = "idle" ]_vars

\* one session has been asked to pick a username for a join-room line while
\* another is Inside a room
C20_Witness ==
    /\ \E s \in Sessions : \E i \in 1..Len(out[s]) :
          out[s][i].line = "join" /\ out[s][i].text = SetUsernameText
    /\ \E t \in Sessions : state[t].tag = "Inside"

\* the writers that are inside the write of stream h
Writing(h) == { w \in Writers : wr[h][w].pc = "write" }

\* C14: at most one writer is inside the write of a stream, the pieces of
\* one write are next to each other on the stream, and the guard is held
\* only by a writer that is inside its write: a write that has returned, Ok
\* or Err, has released it.
C14_WritesAreExclusive ==
    \A h \in Sessions :
        /\ Cardinality(Writing(h)) <= 1
        /\ guard[h] # NoWriter => Writing(h) = {guard[h]}
        /\ guard[h] = NoWriter => Writing(h) = {}
        /\ \A i, k \in 1..Len(wire[h]) : \A j \in i..k :
              (wire[h][i].by = wire[h][k].by /\ wire[h][i].n = wire[h][k].n)
                  => (wire[h][j].by = wire[h][i].by /\ wire[h][j].n = wire[h][i].n)

\* a writer waits for the guard of a stream while another is in the middle
\* of its bytes, after an earlier write to that stream has returned
C14_Witness ==
    \E h \in Sessions : \E w, v, u \in Writers :
        /\ wr[h][w].pc = "write" /\ wr[h][w].left = 1
        /\ wr[h][v].pc = "lock"
        /\ wr[h][u].n > 0

====
